---- MODULE Spec2Model ----
(***************************************************************************)
(* Model of jules-scratch/verification/verify.py: the Playwright runner    *)
(* run(playwright) that drives the WordSpark web application.              *)
(*                                                                         *)
(* Every statement of run() that talks to the browser is one synchronous   *)
(* call: it is dispatched (action Call) and the script blocks until the    *)
(* browser answers (one return action per statement), either normally or   *)
(* by raising.  The web application is the environment of the script; it   *)
(* is modelled from its accessible contract (section 6 of the              *)
(* specification).                                                         *)
(***************************************************************************)
EXTENDS Naturals, Sequences, FiniteSets, TLC

VARIABLES
    run,             \* number of the current invocation of the script
    pc,              \* the statement of run() control is at, or "done"
    inflight,        \* browser operations dispatched and not yet answered
    issued,          \* operations dispatched in this run, in order
    completed,       \* operations that returned normally in this run, in order
    failed,          \* operations that raised in this run
    outcome,         \* "running", "success" (run returned) or "failure" (raised)
    handles,         \* live automation handles: browser, context, page
    probe,           \* result of the is_visible() probe: unknown/visible/hidden
    fields,          \* content of the login form's labelled inputs
    submits,         \* the form contents submitted by "Sign In" clicks
    shots,           \* screenshot paths written in this run, in order
    files,           \* the files on disk: path -> capture
    page,            \* what the application's page shows
    headingRendered, \* the "WordSpark" heading of the login page is rendered
    startPage        \* the page the navigation of this run landed on

vars == << run, pc, inflight, issued, completed, failed, outcome, handles,
           probe, fields, submits, shots, files, page, headingRendered,
           startPage >>

\* Number of consecutive invocations of the script that are explored.
MaxRuns == 2

----------------------------------------------------------------------------
(* Literals of the script *)

EmailValue == "test@example.com"
PasswordValue == "password"
AfterLoginPath == "jules-scratch/verification/after_login.png"
DashboardPath == "jules-scratch/verification/dashboard.png"
StoryPagePath == "jules-scratch/verification/story_page.png"

FixedPaths == {AfterLoginPath, DashboardPath, StoryPagePath}

----------------------------------------------------------------------------
(* Control flow of run() *)

\* The statements of run() in program order.
Order == << "launch", "new_context", "new_page", "goto", "probe",
            "fill_email", "fill_password", "click_signin", "shot_login",
            "expect_vl", "shot_dash", "expect_play", "click_play",
            "expect_story", "shot_story", "close" >>

Ops == {Order[i] : i \in 1..Len(Order)}

Index(op) == CHOOSE i \in 1..Len(Order) : Order[i] = op

Following(op) == IF Index(op) = Len(Order) THEN "done" ELSE Order[Index(op) + 1]

\* Statements inside the try block, whose failure runs the finally clause.
Guarded == {Order[i] : i \in Index("goto")..Index("shot_story")}

\* Operations on the page handle.
PageOps == Guarded

\* Where control goes after op returned normally; vis is the probe's answer.
Succ_alwaysLogin(op, vis) == Following(op)

Succ_noLoginShot(op, vis) ==
    IF op = "probe" /\ ~vis THEN "expect_vl"
    ELSE IF op = "click_signin" THEN "expect_vl"
    ELSE Following(op)

Succ_resubmit(op, vis) ==
    IF op = "probe" /\ ~vis THEN "expect_vl"
    ELSE IF op = "shot_login" /\ Len(SelectSeq(issued, LAMBDA o : o = "click_signin")) < 2
         THEN "click_signin"
    ELSE Following(op)

Succ_noDashShot(op, vis) ==
    IF op = "probe" /\ ~vis THEN "expect_vl"
    ELSE IF op = "expect_vl" THEN "expect_play"
    ELSE Following(op)

Succ(op, vis) ==
    IF op = "probe" /\ ~vis THEN "expect_vl" ELSE Following(op)

\* Where control goes after op raised: the finally clause for the statements
\* of the try block, out of run() for the others.
Handler_swallow(op) == Following(op)

Handler(op) == IF op \in Guarded THEN "close" ELSE "done"

\* How the run ends once control leaves run().
Outcome(raised) == IF raised = {} THEN "success" ELSE "failure"

\* The file system after a screenshot is saved to path.
WriteFile_versioned(fs, path, capture) ==
    [p \in DOMAIN fs \cup {<<path, capture.run>>} |->
        IF p = <<path, capture.run>> THEN capture ELSE fs[p]]

WriteFile(fs, path, capture) ==
    [p \in DOMAIN fs \cup {path} |-> IF p = path THEN capture ELSE fs[p]]

----------------------------------------------------------------------------
(* The web application, from its accessible contract *)

BlankForm == [Email |-> "", Password |-> ""]

\* The pages the navigation can land on.
Landing == {"login", "dashboard"}

\* The "WordSpark" heading marks the login page.
WordSparkVisible == page = "login" /\ headingRendered

\* The elements an operation needs are on the current page.
Present(op) ==
    CASE op \in {"fill_email", "fill_password", "click_signin"} -> page = "login"
      [] op \in {"expect_vl", "expect_play", "click_play"} -> page = "dashboard"
      [] op = "expect_story" -> page = "story"
      [] OTHER -> TRUE

\* Pages a click on "Sign In" can lead to (accepted or rejected).
AfterSignIn == {"dashboard", "login"}

\* Pages a click on "Play Story" can lead to.
AfterPlayStory == {"story", "dashboard"}

----------------------------------------------------------------------------
TypeOK ==
    /\ run \in 1..MaxRuns
    /\ pc \in Ops \cup {"done"}
    /\ inflight \subseteq Ops
    /\ failed \subseteq Ops
    /\ outcome \in {"running", "success", "failure"}
    /\ handles \subseteq {"browser", "context", "page"}
    /\ probe \in {"unknown", "visible", "hidden"}
    /\ page \in {"none", "login", "dashboard", "story"}
    /\ headingRendered \in BOOLEAN
    /\ startPage \in {"none"} \cup Landing

Init ==
    /\ run = 1
    /\ pc = "launch"
    /\ inflight = {}
    /\ issued = << >>
    /\ completed = << >>
    /\ failed = {}
    /\ outcome = "running"
    /\ handles = {}
    /\ probe = "unknown"
    /\ fields = BlankForm
    /\ submits = << >>
    /\ shots = << >>
    /\ files = << >>
    /\ page = "none"
    /\ headingRendered = FALSE
    /\ startPage = "none"

\* The script dispatches the operation of the current statement.
Call_async ==
    /\ pc \in Ops
    /\ pc \notin inflight
    /\ inflight' = inflight \cup {pc}
    /\ issued' = Append(issued, pc)
    /\ pc' = IF pc \in {"expect_vl", "expect_play"} THEN Following(pc) ELSE pc
    /\ UNCHANGED << run, completed, failed, outcome, handles, probe, fields,
                    submits, shots, files, page, headingRendered, startPage >>

Call ==
    /\ pc \in Ops
    /\ pc \notin inflight
    /\ inflight' = inflight \cup {pc}
    /\ issued' = Append(issued, pc)
    /\ UNCHANGED << run, pc, completed, failed, outcome, handles, probe,
                    fields, submits, shots, files, page, headingRendered,
                    startPage >>

\* The operation of the current statement returns (ok) or raises (~ok).
Return(op, ok, vis) ==
    /\ pc = op
    /\ op \in inflight
    /\ ok => Present(op)
    /\ inflight' = inflight \ {op}
    /\ completed' = IF ok THEN Append(completed, op) ELSE completed
    /\ failed' = IF ok THEN failed ELSE failed \cup {op}
    /\ pc' = IF ok THEN Succ(op, vis) ELSE Handler(op)
    /\ outcome' = IF pc' = "done" THEN Outcome(failed') ELSE outcome
    /\ UNCHANGED << run, issued >>

\* browser = playwright.chromium.launch(headless=True)
Launch ==
    \E ok \in BOOLEAN :
        /\ Return("launch", ok, FALSE)
        /\ handles' = IF ok THEN {"browser"} ELSE handles
        /\ UNCHANGED << probe, fields, submits, shots, files, page,
                        headingRendered, startPage >>

\* context = browser.new_context()
NewContext ==
    \E ok \in BOOLEAN :
        /\ Return("new_context", ok, FALSE)
        /\ handles' = IF ok THEN handles \cup {"context"} ELSE handles
        /\ UNCHANGED << probe, fields, submits, shots, files, page,
                        headingRendered, startPage >>

\* page = context.new_page()
NewPage ==
    \E ok \in BOOLEAN :
        /\ Return("new_page", ok, FALSE)
        /\ handles' = IF ok THEN handles \cup {"page"} ELSE handles
        /\ UNCHANGED << probe, fields, submits, shots, files, page,
                        headingRendered, startPage >>

\* page.goto("http://localhost:8080/")
Goto ==
    \E ok \in BOOLEAN :
      \E land \in (IF ok THEN Landing ELSE {page}) :
        \E rendered \in (IF land = "login" THEN BOOLEAN ELSE {FALSE}) :
          /\ Return("goto", ok, FALSE)
          /\ page' = land
          /\ startPage' = IF ok THEN land ELSE startPage
          /\ headingRendered' = rendered
          /\ UNCHANGED << handles, probe, fields, submits, shots, files >>

\* if page.get_by_role("heading", name="WordSpark").is_visible():
Probe_waiting ==
    \E ok \in BOOLEAN :
        /\ Return("probe", ok, page = "login")
        /\ probe' = IF ~ok THEN probe
                    ELSE IF page = "login" THEN "visible" ELSE "hidden"
        /\ headingRendered' = IF ok /\ page = "login" THEN TRUE
                              ELSE headingRendered
        /\ UNCHANGED << handles, fields, submits, shots, files, page,
                        startPage >>

Probe ==
    \E ok \in BOOLEAN :
        /\ Return("probe", ok, WordSparkVisible)
        /\ probe' = IF ~ok THEN probe
                    ELSE IF WordSparkVisible THEN "visible" ELSE "hidden"
        /\ UNCHANGED << handles, fields, submits, shots, files, page,
                        headingRendered, startPage >>

\* page.get_by_label("Email").fill("test@example.com")
FillEmail ==
    \E ok \in BOOLEAN :
        /\ Return("fill_email", ok, FALSE)
        /\ fields' = IF ok THEN [fields EXCEPT !.Email = EmailValue] ELSE fields
        /\ UNCHANGED << handles, probe, submits, shots, files, page,
                        headingRendered, startPage >>

\* page.get_by_label("Password").fill("password")
FillPassword ==
    \E ok \in BOOLEAN :
        /\ Return("fill_password", ok, FALSE)
        /\ fields' = IF ok THEN [fields EXCEPT !.Password = PasswordValue]
                     ELSE fields
        /\ UNCHANGED << handles, probe, submits, shots, files, page,
                        headingRendered, startPage >>

\* page.get_by_role("button", name="Sign In").click()
ClickSignIn ==
    \E ok \in BOOLEAN :
      \E to \in (IF ok THEN AfterSignIn ELSE {page}) :
        /\ Return("click_signin", ok, FALSE)
        /\ submits' = IF ok THEN Append(submits, fields) ELSE submits
        /\ page' = to
        /\ headingRendered' = IF to = "login" THEN headingRendered ELSE FALSE
        /\ UNCHANGED << handles, probe, fields, shots, files, startPage >>

\* page.screenshot(path=...): the statement op saves a capture to path.
Screenshot(op, path) ==
    \E ok \in BOOLEAN :
        /\ Return(op, ok, FALSE)
        /\ files' = IF ok THEN WriteFile(files, path, [run |-> run, page |-> page])
                    ELSE files
        /\ shots' = IF ok THEN Append(shots, path) ELSE shots
        /\ UNCHANGED << handles, probe, fields, submits, page, headingRendered,
                        startPage >>

\* page.screenshot(path="jules-scratch/verification/after_login.png")
ShotLogin == Screenshot("shot_login", AfterLoginPath)

\* expect(page.get_by_role("heading", name="Vocabulary Lists"))
\*     .to_be_visible(timeout=10000)
ExpectVocabularyLists ==
    \E ok \in BOOLEAN :
        /\ Return("expect_vl", ok, FALSE)
        /\ UNCHANGED << handles, probe, fields, submits, shots, files, page,
                        headingRendered, startPage >>

\* page.screenshot(path="jules-scratch/verification/dashboard.png")
ShotDashboard == Screenshot("shot_dash", DashboardPath)

\* play_story_button = page.get_by_role("button", name="Play Story").first
\* expect(play_story_button).to_be_visible()
ExpectPlayStory ==
    \E ok \in BOOLEAN :
        /\ Return("expect_play", ok, FALSE)
        /\ UNCHANGED << handles, probe, fields, submits, shots, files, page,
                        headingRendered, startPage >>

\* play_story_button.click()
ClickPlayStory ==
    \E ok \in BOOLEAN :
      \E to \in (IF ok THEN AfterPlayStory ELSE {page}) :
        /\ Return("click_play", ok, FALSE)
        /\ page' = to
        /\ UNCHANGED << handles, probe, fields, submits, shots, files,
                        headingRendered, startPage >>

\* expect(page.get_by_role("heading", name="Story:")).to_be_visible()
ExpectStory ==
    \E ok \in BOOLEAN :
        /\ Return("expect_story", ok, FALSE)
        /\ UNCHANGED << handles, probe, fields, submits, shots, files, page,
                        headingRendered, startPage >>

\* page.screenshot(path="jules-scratch/verification/story_page.png")
ShotStory == Screenshot("shot_story", StoryPagePath)

\* finally: browser.close()
Close ==
    \E ok \in BOOLEAN :
        /\ Return("close", ok, FALSE)
        /\ handles' = IF ok THEN {} ELSE handles
        /\ UNCHANGED << probe, fields, submits, shots, files, page,
                        headingRendered, startPage >>

\* The application finishes rendering the login page's "WordSpark" heading.
Render ==
    /\ page = "login"
    /\ ~headingRendered
    /\ pc # "done"
    /\ headingRendered' = TRUE
    /\ UNCHANGED << run, pc, inflight, issued, completed, failed, outcome,
                    handles, probe, fields, submits, shots, files, page,
                    startPage >>

\* with sync_playwright() as playwright: run(playwright) -- invoked again.
NewRun ==
    /\ pc = "done"
    /\ run < MaxRuns
    /\ run' = run + 1
    /\ pc' = "launch"
    /\ inflight' = {}
    /\ issued' = << >>
    /\ completed' = << >>
    /\ failed' = {}
    /\ outcome' = "running"
    /\ handles' = {}
    /\ probe' = "unknown"
    /\ fields' = BlankForm
    /\ submits' = << >>
    /\ shots' = << >>
    /\ page' = "none"
    /\ headingRendered' = FALSE
    /\ startPage' = "none"
    /\ UNCHANGED files

Next ==
    \/ Call
    \/ Launch
    \/ NewContext
    \/ NewPage
    \/ Goto
    \/ Probe
    \/ FillEmail
    \/ FillPassword
    \/ ClickSignIn
    \/ ShotLogin
    \/ ExpectVocabularyLists
    \/ ShotDashboard
    \/ ExpectPlayStory
    \/ ClickPlayStory
    \/ ExpectStory
    \/ ShotStory
    \/ Close
    \/ Render
    \/ NewRun

Spec == Init /\ [][Next]_vars

----------------------------------------------------------------------------
(* Vocabulary of the properties *)

Count(seq, x) == Len(SelectSeq(seq, LAMBDA o : o = x))

Has(seq, x) == \E i \in 1..Len(seq) : seq[i] = x

\* Position of the first x in seq, 0 when absent.
Pos(seq, x) ==
    IF Has(seq, x) THEN CHOOSE i \in 1..Len(seq) :
                            seq[i] = x /\ \A j \in 1..(i - 1) : seq[j] # x
    ELSE 0

Done == pc = "done"

Launched == Has(completed, "launch")

CloseCalls == Count(issued, "close")

LoginSeq == << "fill_email", "fill_password", "click_signin", "shot_login" >>

LoginOps == {LoginSeq[i] : i \in 1..Len(LoginSeq)}

Credentials == [Email |-> "test@example.com", Password |-> "password"]

\* The file at path holds a capture of the current run.
Fresh(path) == path \in DOMAIN files /\ files[path].run = run

LoginPathOps == << "launch", "new_context", "new_page", "goto", "probe",
                   "fill_email", "fill_password", "click_signin",
                   "shot_login", "expect_vl", "shot_dash", "expect_play",
                   "click_play", "expect_story", "shot_story", "close" >>

DirectPathOps == << "launch", "new_context", "new_page", "goto", "probe",
                    "expect_vl", "shot_dash", "expect_play", "click_play",
                    "expect_story", "shot_story", "close" >>

----------------------------------------------------------------------------
\* C1: whenever a run has ended and its browser had been launched,
\* browser.close() was executed exactly once in that run, whichever step
\* failed (context creation, page creation, navigation, login branch,
\* assertions, click, screenshots) or none; and it is never executed twice.
C1_CloseExactlyOnce ==
    /\ CloseCalls <= 1
    /\ (Done /\ Launched) => CloseCalls = 1

\* C2: a failure is neither swallowed nor retried: every step is attempted
\* at most once per run, after a failed step only the browser close is
\* attempted, and a run in which a step failed ends in failure, raised only
\* after the browser close has executed (a failed launch excepted, as there
\* is no browser to close).
C2_FailurePropagates ==
    /\ \A op \in Ops : Count(issued, op) <= 1
    /\ \A f \in failed : \A i \in 1..Len(issued) :
           i > Pos(issued, f) => issued[i] = "close"
    /\ (outcome = "success") => failed = {}
    /\ (Done /\ failed # {}) =>
           /\ outcome = "failure"
           /\ "launch" \notin failed => CloseCalls = 1

\* C3: when the probe found the "WordSpark" heading not visible, the login
\* branch is skipped: Email and Password are never filled, "Sign In" is never
\* clicked, after_login.png is not written in that run, and the statement
\* after the probe is the "Vocabulary Lists" wait.
C3_LoginSkipped ==
    probe = "hidden" =>
        /\ \A op \in LoginOps : ~Has(issued, op)
        /\ fields = BlankForm
        /\ submits = << >>
        /\ ~Has(shots, AfterLoginPath)
        /\ ~Fresh(AfterLoginPath)
        /\ IF Pos(issued, "probe") = Len(issued)
           THEN pc = "expect_vl"
           ELSE issued[Pos(issued, "probe") + 1] = "expect_vl"

C3_Witness ==
    /\ Done
    /\ probe = "hidden"
    /\ outcome = "success"
    /\ Has(completed, "expect_vl")

\* C4 as stated: in every run where the heading is visible at the probe, the
\* run has filled Email and Password with the fixed credentials, clicked
\* "Sign In" exactly once and written after_login.png, in that order.
C4_LoginAlwaysCompletes ==
    (Done /\ probe = "visible") =>
        /\ \A i \in 1..Len(LoginSeq) :
               /\ Has(completed, LoginSeq[i])
               /\ Pos(issued, LoginSeq[i]) = Pos(issued, "probe") + i
        /\ submits = << Credentials >>
        /\ Has(shots, AfterLoginPath)

\* C4 amended: in every run where the heading is visible at the probe, the
\* login steps are attempted right after the probe in the order fill Email,
\* fill Password, click "Sign In", screenshot, each at most once and each
\* only once its predecessor succeeded; Email is only ever filled with
\* "test@example.com" and Password with "password"; the form is submitted at
\* most once and only with exactly these credentials; and when none of the
\* four steps fails all four are done, with exactly one submission and
\* after_login.png written.
C4_LoginSequence ==
    /\ \A op \in LoginOps : Has(issued, op) => probe = "visible"
    /\ probe = "visible" =>
        /\ \A i \in 1..Len(LoginSeq) :
               /\ Count(issued, LoginSeq[i]) <= 1
               /\ Has(issued, LoginSeq[i]) =>
                      /\ Pos(issued, LoginSeq[i]) = Pos(issued, "probe") + i
                      /\ \A j \in 1..(i - 1) : Has(completed, LoginSeq[j])
        /\ fields.Email = IF Has(completed, "fill_email")
                          THEN "test@example.com" ELSE ""
        /\ fields.Password = IF Has(completed, "fill_password")
                             THEN "password" ELSE ""
        /\ submits = IF Has(completed, "click_signin")
                     THEN << Credentials >> ELSE << >>
        /\ (Done /\ LoginOps \cap failed = {}) =>
               /\ \A op \in LoginOps : Has(completed, op)
               /\ submits = << Credentials >>
               /\ Has(shots, AfterLoginPath)

C4_Witness ==
    /\ Done
    /\ probe = "visible"
    /\ submits = << Credentials >>
    /\ Has(shots, AfterLoginPath)
    /\ outcome = "success"

\* C5: when the "Vocabulary Lists" wait fails, the dashboard screenshot is
\* not written, "Play Story" is not clicked, the story-page screenshot is not
\* written, only the browser close follows, and the run ends in failure.
C5_VocabularyListsTimeout ==
    "expect_vl" \in failed =>
        /\ \A op \in {"shot_dash", "expect_play", "click_play", "expect_story",
                      "shot_story"} : ~Has(issued, op)
        /\ ~Has(shots, DashboardPath)
        /\ ~Has(shots, StoryPagePath)
        /\ ~Fresh(DashboardPath)
        /\ ~Fresh(StoryPagePath)
        /\ pc \in {"close", "done"}
        /\ outcome # "success"
        /\ Done => outcome = "failure"

C5_Witness ==
    /\ Done
    /\ "expect_vl" \in failed
    /\ outcome = "failure"
    /\ CloseCalls = 1

\* C6: a run ends in success exactly when every step on its path completed
\* without failure; a successful run that took the login branch wrote
\* exactly after_login, dashboard, story_page, each once and in that order,
\* and a successful run that skipped it wrote exactly dashboard, story_page.
C6_SuccessIffAllSteps ==
    /\ Done => outcome \in {"success", "failure"}
    /\ ~Done => outcome = "running"
    /\ Done => (outcome = "success" <=>
                   /\ failed = {}
                   /\ completed = issued
                   /\ completed \in {LoginPathOps, DirectPathOps})
    /\ (outcome = "success" /\ probe = "visible") =>
           /\ completed = LoginPathOps
           /\ shots = << AfterLoginPath, DashboardPath, StoryPagePath >>
           /\ \A p \in FixedPaths : Fresh(p)
    /\ (outcome = "success" /\ probe # "visible") =>
           /\ probe = "hidden"
           /\ completed = DirectPathOps
           /\ shots = << DashboardPath, StoryPagePath >>
           /\ Fresh(DashboardPath) /\ Fresh(StoryPagePath)

C6_Witness ==
    /\ Done
    /\ outcome = "success"
    /\ probe = "visible"
    /\ startPage = "login"
    /\ Len(shots) = 3

\* C7: across consecutive runs the files written are always among the three
\* fixed paths, never more than three, and every path written in the current
\* run holds the current run's capture (last run wins).
C7_FixedPathsOverwritten ==
    /\ DOMAIN files \subseteq FixedPaths
    /\ Cardinality(DOMAIN files) <= 3
    /\ \A p \in DOMAIN files : files[p].run \in 1..run
    /\ \A i \in 1..Len(shots) : Fresh(shots[i])

C7_Witness ==
    /\ run = 2
    /\ Has(shots, DashboardPath)
    /\ Fresh(DashboardPath)
    /\ AfterLoginPath \in DOMAIN files
    /\ files[AfterLoginPath].run = 1

\* C8: the probe is made once and does not wait: when it executes on a login
\* page whose heading is not yet rendered it answers "not visible" and
\* control goes to the "Vocabulary Lists" wait; in such a run the form is
\* never filled or submitted, even when the heading renders afterwards, the
\* run fails at the "Vocabulary Lists" wait, and the browser is closed.
C8_ProbeStep ==
    (pc = "probe" /\ pc' # "probe" /\ "probe" \notin failed'
        /\ page = "login" /\ ~headingRendered)
    => (probe' = "hidden" /\ pc' = "expect_vl" /\ ~headingRendered')

C8_LateHeadingRun ==
    /\ Count(issued, "probe") <= 1
    /\ (startPage = "login" /\ probe = "hidden") =>
        /\ \A op \in LoginOps : ~Has(issued, op)
        /\ fields = BlankForm
        /\ submits = << >>
        /\ page = "login"
        /\ ~Has(completed, "expect_vl")
        /\ Done => /\ "expect_vl" \in failed
                   /\ outcome = "failure"
                   /\ issued = << "launch", "new_context", "new_page", "goto",
                                  "probe", "expect_vl", "close" >>

C8_LateHeading == [][C8_ProbeStep]_vars /\ []C8_LateHeadingRun

C8_Witness ==
    /\ Done
    /\ startPage = "login"
    /\ probe = "hidden"
    /\ headingRendered
    /\ "expect_vl" \in failed
    /\ "browser" \notin handles

\* C9: at most one browser operation is in flight at any time, operations
\* are issued in program order, the dashboard screenshot only after the
\* "Vocabulary Lists" heading was observed, the "Play Story" click only after
\* the dashboard screenshot and the button's visibility, the story-page
\* screenshot only after the click and the "Story:" heading, and no page
\* operation after the browser close.
C9_Sequential ==
    /\ Cardinality(inflight) <= 1
    /\ inflight \subseteq {pc}
    /\ \A i, j \in 1..Len(issued) : i < j => Index(issued[i]) < Index(issued[j])
    /\ \A i \in 1..Len(issued) :
           i < Len(issued) => Has(completed, issued[i]) \/ issued[i] \in failed
    /\ Has(issued, "shot_dash") => Has(completed, "expect_vl")
    /\ Has(shots, DashboardPath) => Has(completed, "expect_vl")
    /\ Has(issued, "click_play") =>
           /\ Has(completed, "shot_dash")
           /\ Has(shots, DashboardPath)
           /\ Has(completed, "expect_play")
    /\ Has(issued, "shot_story") =>
           /\ Has(completed, "click_play")
           /\ Has(completed, "expect_story")
    /\ Has(issued, "close") => issued[Len(issued)] = "close"
    /\ (Launched /\ "browser" \notin handles) => Done

C9_Witness ==
    /\ Done
    /\ outcome = "success"
    /\ Has(shots, StoryPagePath)
    /\ "browser" \notin handles

\* C10: after_login.png is written right after the "Sign In" click and
\* before the "Vocabulary Lists" wait: once the login branch's fills, click
\* and screenshot have succeeded the file holds this run's capture, whatever
\* happens afterwards, also in a run that then fails at the wait.
C10_AfterLoginBeforeCheck ==
    /\ Has(issued, "shot_login") =>
           /\ Pos(issued, "shot_login") = Pos(issued, "click_signin") + 1
           /\ Has(completed, "click_signin")
    /\ Has(issued, "expect_vl") /\ probe = "visible" =>
           /\ Has(completed, "shot_login")
           /\ Pos(issued, "expect_vl") = Pos(issued, "shot_login") + 1
    /\ Has(completed, "shot_login") =>
           /\ Has(shots, AfterLoginPath)
           /\ Fresh(AfterLoginPath)
    /\ (probe = "visible" /\ LoginOps \cap failed = {}
           /\ pc \notin {"probe"} \cup LoginOps) =>
           /\ Has(shots, AfterLoginPath)
           /\ Fresh(AfterLoginPath)

C10_Witness ==
    /\ Done
    /\ outcome = "failure"
    /\ "expect_vl" \in failed
    /\ Fresh(AfterLoginPath)
    /\ page = "login"
    /\ ~Has(shots, DashboardPath)

====
